---- MODULE Spec2Model ----
(***************************************************************************)
(* Model of the redeem-code Discord bot (src/bot.py, src/redeem-code.py).  *)
(* The two entry points differ only in logging and in the schedule of the  *)
(* loop (an interval against a daily time); line numbers refer to          *)
(* src/bot.py.                                                             *)
(*                                                                         *)
(* A text (a Python str) is a sequence of one-character strings.  An       *)
(* optional value (a Python value or None) is a sequence of length at most *)
(* one: None is << >>, a value v is << v >>.                               *)
(***************************************************************************)
EXTENDS Integers, Sequences, FiniteSets, TLC

VARIABLES
    CODE_MEMO,    \* the module-level set CODE_MEMO (bot.py:81)
    memoFile,     \* the file ARGUMENTS.memo_filename: [exists, content]
    table,        \* the <tr> rows of the table last handed to get_redeem_codes
    added,        \* the list get_redeem_codes last returned
    message,      \* the message of the last channel.send that returned, or None
    calls,        \* differ run: one record per get_redeem_codes call
    proc,         \* the process: "down" or "running" (inside CLIENT.run)
    tasks,        \* the tasks created by fetch_and_send_codes.start()
    loopTask,     \* Loop._task: the index of the last task started, 0 if none
    cycle,        \* history: the last cycle, its status and what it started from
    lastGood,     \* history: the codes loaded at startup or last scraped
    announced,    \* history: codes sent, and in every scrape that returned since
    resent,       \* history: a code of `announced` was sent again
    readyInCycle  \* history: on_ready ran while the present cycle was suspended

vars == << CODE_MEMO, memoFile, table, added, message, calls, proc, tasks,
           loopTask, cycle, lastGood, announced, resent, readyInCycle >>

botVars == << proc, tasks, loopTask, cycle, lastGood, announced, resent,
              readyInCycle >>

None == << >>

Some(v) == << v >>

-----------------------------------------------------------------------------
(* Python str operations used by the program.                              *)

\* ord(c) for the characters of the model
Ord(c) ==
    CASE c = "\n" -> 10
      [] c = " " -> 32
      [] c = "C" -> 67
      [] c = "R" -> 82
      [] c = "T" -> 84
      [] c = "a" -> 97
      [] c = "b" -> 98
      [] c = "c" -> 99
      [] c = "d" -> 100
      [] c = "e" -> 101
      [] c = "o" -> 111
      [] OTHER -> 200

\* str.isspace() of one character: what str.strip() removes
IsSpace(c) == c \in {"\n", " "}

\* str.splitlines() breaks a line at these
IsLineBreak(c) == c = "\n"

RECURSIVE LStrip(_)
LStrip(s) ==
    IF s = << >> THEN << >>
    ELSE IF IsSpace(Head(s)) THEN LStrip(Tail(s))
    ELSE s

RECURSIVE RStrip(_)
RStrip(s) ==
    IF s = << >> THEN << >>
    ELSE IF IsSpace(s[Len(s)]) THEN RStrip(SubSeq(s, 1, Len(s) - 1))
    ELSE s

\* str.strip()
Strip(s) == RStrip(LStrip(s))

\* s < t for two str: the order sorted() uses
RECURSIVE StrLess(_, _)
StrLess(s, t) ==
    IF t = << >> THEN FALSE
    ELSE IF s = << >> THEN TRUE
    ELSE IF Head(s) = Head(t) THEN StrLess(Tail(s), Tail(t))
    ELSE Ord(Head(s)) < Ord(Head(t))

\* sorted(S) of a set of str
RECURSIVE Sorted(_)
Sorted(S) ==
    IF S = {} THEN << >>
    ELSE LET m == CHOOSE x \in S : \A y \in S \ {x} : StrLess(x, y)
         IN  << m >> \o Sorted(S \ {m})

\* sep.join(parts)
RECURSIVE Join(_, _)
Join(sep, parts) ==
    IF parts = << >> THEN << >>
    ELSE IF Len(parts) = 1 THEN parts[1]
    ELSE parts[1] \o sep \o Join(sep, Tail(parts))

\* str.splitlines(): the lines of s, line breaks dropped, no empty last line
RECURSIVE SplitLinesFrom(_, _)
SplitLinesFrom(s, line) ==
    IF s = << >> THEN (IF line = << >> THEN << >> ELSE << line >>)
    ELSE IF IsLineBreak(Head(s)) THEN << line >> \o SplitLinesFrom(Tail(s), << >>)
    ELSE SplitLinesFrom(Tail(s), Append(line, Head(s)))

SplitLines(s) == SplitLinesFrom(s, << >>)

\* (len(rows) - 1) % 3 for a possibly negative left operand
PyMod(a, b) == IF a >= 0 THEN a % b ELSE (b - ((0 - a) % b)) % b

Range(s) == { s[i] : i \in DOMAIN s }

-----------------------------------------------------------------------------
(* The table rows and the differ (bot.py:179-261).                         *)

\* the rows of one code entry: the divisor of the row count test (bot.py:240)
RowsPerCode == 3

\* the interval handed to chunks_exact (bot.py:245)
ChunkSize == 3

Code == << "C", "o", "d", "e" >>

\* get_table_row_text(row): None, or the pair of stripped header and data
get_table_row_text(row) ==
    IF row.th = None THEN None
    ELSE IF row.td = None THEN None
    ELSE Some(<< Strip(row.th[1]), Strip(row.td[1]) >>)

\* chunks_exact(iterable, interval): the chunks yielded, and whether the
\* generator raises once they are consumed
chunks_exact(iterable, interval) ==
    LET n == Len(iterable) \div interval
    IN  [ chunks |-> [ k \in 1..n |->
                         SubSeq(iterable, (k - 1) * interval + 1, k * interval) ],
          leftover |-> Len(iterable) - n * interval # 0 ]

\* parse_chunked_rows(chunk): the dict, a function from header to data
RECURSIVE parse_rows_from(_, _)
parse_rows_from(chunk, data) ==
    IF chunk = << >> THEN data
    ELSE LET row_data == get_table_row_text(Head(chunk))
         IN  IF row_data # None
             THEN parse_rows_from(Tail(chunk),
                      [ k \in DOMAIN data \cup { row_data[1][1] } |->
                          IF k = row_data[1][1] THEN row_data[1][2] ELSE data[k] ])
             ELSE parse_rows_from(Tail(chunk), data)

parse_chunked_rows(chunk) == parse_rows_from(chunk, [ k \in {} |-> << >> ])

\* whether the code is appended to added (bot.py:253)
IsAdded(code, memo) == code \notin memo

\* the for loop of get_redeem_codes (bot.py:245-254) over the chunks left
RECURSIVE scan_chunks(_, _, _, _)
scan_chunks(chunks, memo, addedSoFar, current) ==
    IF chunks = << >> THEN [ raised |-> FALSE, added |-> addedSoFar, current |-> current ]
    ELSE LET code_data == parse_chunked_rows(Head(chunks))
         IN  IF Code \notin DOMAIN code_data
             THEN [ raised |-> TRUE, added |-> addedSoFar, current |-> current ]
             ELSE LET code == code_data[Code]
                  IN  scan_chunks(Tail(chunks), memo,
                          IF IsAdded(code, memo) THEN Append(addedSoFar, code)
                          ELSE addedSoFar,
                          current \cup { code })

\* the text written to the memo file (bot.py:259)
MemoText(current) == Join(<< "\n" >>, Sorted(current))

\* The memo file after open(..., 'w') and write (bot.py:258-259).  io says how
\* the write went: "ok", "open_fails" (the file is left as it was) or
\* "write_fails" (the file was truncated by open and nothing was written).
WriteMemo(file, current, io) ==
    CASE io = "ok" -> [ exists |-> TRUE, content |-> MemoText(current) ]
      [] io = "open_fails" -> file
      [] io = "write_fails" -> [ exists |-> TRUE, content |-> << >> ]

IOOutcomes == { "ok", "open_fails", "write_fails" }

\* the memo updated without memo.clear()
ReplaceMemo_NoClear(memo, current) == memo \cup current

\* the memo cleared and never filled
ReplaceMemo_ClearOnly(memo, current) == memo \ memo

\* the memo after memo.clear(); memo.update(current) (bot.py:256-257)
ReplaceMemo(memo, current) == (memo \ memo) \cup current

\* get_redeem_codes adding each code to the memo as the loop meets it, so that
\* a later group with no "Code" row raises with the memo already changed
get_redeem_codes_Eager(rows, memo, file, io) ==
    IF PyMod(Len(rows) - 1, RowsPerCode) # 0
    THEN [ raised |-> TRUE, added |-> << >>, memo |-> memo, file |-> file ]
    ELSE LET ch == chunks_exact(Tail(rows), ChunkSize)
             r  == scan_chunks(ch.chunks, memo, << >>, {})
         IN  IF r.raised \/ ch.leftover
             THEN [ raised |-> TRUE, added |-> << >>, memo |-> memo \cup r.current,
                    file |-> file ]
             ELSE [ raised |-> io # "ok", added |-> r.added,
                    memo |-> ReplaceMemo(memo, r.current),
                    file |-> WriteMemo(file, r.current, io) ]

\* get_redeem_codes(table, memo) with the memo file `file`: whether it raised,
\* the list returned, and the memo and the file it leaves.  find_all returns a
\* list, so the `rows is None` branch (bot.py:238) is never taken.
get_redeem_codes(rows, memo, file, io) ==
    IF PyMod(Len(rows) - 1, RowsPerCode) # 0
    THEN [ raised |-> TRUE, added |-> << >>, memo |-> memo, file |-> file ]
    ELSE LET ch == chunks_exact(Tail(rows), ChunkSize)
             r  == scan_chunks(ch.chunks, memo, << >>, {})
         IN  IF r.raised \/ ch.leftover
             THEN [ raised |-> TRUE, added |-> << >>, memo |-> memo, file |-> file ]
             ELSE [ raised |-> io # "ok", added |-> r.added,
                    memo |-> ReplaceMemo(memo, r.current),
                    file |-> WriteMemo(file, r.current, io) ]

-----------------------------------------------------------------------------
(* The message of a cycle (bot.py:282-287).                                *)

\* '@redeemcodes Newly added redeem codes are: ', kept as one element
Header == << "@redeemcodes Newly added redeem codes are: " >>

\* '\n  * ' with the bullet U+2022, kept as the one element "BULLET"
Delimiter == << "\n", " ", " ", "BULLET", " " >>

\* the message sent for a non-empty added list
FormatMessage(addedCodes) == Header \o Delimiter \o Join(Delimiter, addedCodes)

-----------------------------------------------------------------------------
(* What a table holds, read off the rows without running the differ.       *)

\* the rows of the k-th 3-row group after the title row
GroupRows(rows, k) == { rows[i] : i \in (3 * k - 1)..(3 * k + 1) }

IsCodeRow(row) == row.th # None /\ row.td # None /\ Strip(row.th[1]) = Code

NumGroups(rows) == (Len(rows) - 1) \div 3

\* 1 + 3N rows, and a "Code" row in every group
WellFormed(rows) ==
    /\ Len(rows) >= 1
    /\ (Len(rows) - 1) % 3 = 0
    /\ \A k \in 1..NumGroups(rows) : \E row \in GroupRows(rows, k) : IsCodeRow(row)

\* the code of the k-th group: the data of its last "Code" row
GroupCode(rows, k) ==
    LET i == CHOOSE j \in (3 * k - 1)..(3 * k + 1) :
                 /\ IsCodeRow(rows[j])
                 /\ \A l \in (j + 1)..(3 * k + 1) : ~IsCodeRow(rows[l])
    IN  Strip(rows[i].td[1])

\* the codes of a well-formed table, in table order, and as a set
ScrapedSeq(rows) == [ k \in 1..NumGroups(rows) |-> GroupCode(rows, k) ]

Scraped(rows) == Range(ScrapedSeq(rows))

\* the sequence without the elements of `drop`, each element kept once, at
\* its first position
RECURSIVE FirstSeen(_, _)
FirstSeen(s, drop) ==
    IF s = << >> THEN << >>
    ELSE IF Head(s) \in drop THEN FirstSeen(Tail(s), drop)
    ELSE << Head(s) >> \o FirstSeen(Tail(s), drop \cup { Head(s) })

\* the lines of a message: the text cut at every "\n"
RECURSIVE CutLines(_, _)
CutLines(s, line) ==
    IF s = << >> THEN << line >>
    ELSE IF Head(s) = "\n" THEN << line >> \o CutLines(Tail(s), << >>)
    ELSE CutLines(Tail(s), Append(line, Head(s)))

Bullet == << " ", " ", "BULLET", " " >>

IsBulletLine(line) == Len(line) >= 4 /\ SubSeq(line, 1, 4) = Bullet

\* the codes on the bullet lines of a message, in order
BulletCodes(msg) ==
    LET lines == Tail(CutLines(msg, << >>))
    IN  [ i \in 1..Len(lines) |-> SubSeq(lines[i], 5, Len(lines[i])) ]

-----------------------------------------------------------------------------
(* The differ run: get_redeem_codes applied to a table and a memo drawn    *)
(* from bounded sets, at most twice in a row, and the message formatted    *)
(* from what it returned.                                                  *)

\* the longest table of the differ run, in rows
MaxRows == 7

Title == << "T" >>

Rewards == << "R" >>

\* the rows a table of the differ run is made of
RowChoices ==
    { [ th |-> Some(<< "\n" >> \o Code \o << " " >>), td |-> Some(<< " ", "a", "\n" >>) ],
      [ th |-> Some(Code), td |-> Some(<< "b" >>) ],
      [ th |-> Some(Title), td |-> None ] }

\* the codes a memo of the differ run is made of: one the tables can hold,
\* one they cannot
DifferCodes == { << "a" >>, << "c" >> }

Tables == UNION { [ 1..n -> RowChoices ] : n \in 0..MaxRows }

NoFile == [ exists |-> FALSE, content |-> << >> ]

NoCycle == [ status |-> "none", memo0 |-> {}, file0 |-> NoFile ]

InitBotIdle ==
    /\ proc = "running"
    /\ tasks = << >>
    /\ loopTask = 0
    /\ cycle = NoCycle
    /\ lastGood = {}
    /\ announced = {}
    /\ resent = FALSE
    /\ readyInCycle = FALSE

InitDiffer ==
    /\ table \in Tables
    /\ CODE_MEMO \in SUBSET DifferCodes
    /\ memoFile = IF CODE_MEMO = {} THEN NoFile
                  ELSE [ exists |-> TRUE, content |-> MemoText(CODE_MEMO) ]
    /\ added = << >>
    /\ message = None
    /\ calls = << >>
    /\ InitBotIdle

\* one call get_redeem_codes(table, CODE_MEMO); a second call follows a first
\* that returned
CallDiffer ==
    /\ proc = "running"
    /\ Len(calls) < 2
    /\ calls # << >> => ~calls[Len(calls)].raised
    /\ \E io \in IOOutcomes :
         LET r == get_redeem_codes(table, CODE_MEMO, memoFile, io)
         IN  /\ CODE_MEMO' = r.memo
             /\ memoFile' = r.file
             /\ added' = r.added
             /\ calls' = Append(calls, [ memo0 |-> CODE_MEMO, file0 |-> memoFile,
                                         io |-> io, raised |-> r.raised,
                                         added |-> r.added,
                                         memo1 |-> r.memo, file1 |-> r.file ])
    /\ message' = None
    /\ UNCHANGED << table, botVars >>

\* the message built from the list the last call returned (bot.py:282-285)
FormatAdded ==
    /\ calls # << >>
    /\ ~calls[Len(calls)].raised
    /\ added # << >>
    /\ message = None
    /\ message' = Some(FormatMessage(added))
    /\ UNCHANGED << CODE_MEMO, memoFile, table, added, calls, botVars >>

NextDiffer == CallDiffer \/ FormatAdded

SpecDiffer == InitDiffer /\ [][NextDiffer]_vars

-----------------------------------------------------------------------------
(* Claims about the differ run (SpecDiffer).                               *)

LastCall == calls[Len(calls)]

\* C1: for a well-formed table and any prior memo, a call of get_redeem_codes
\* that returns gives a list whose set of elements is the scraped codes minus
\* the memo before the call, and leaves the memo equal to the scraped codes;
\* with the file written, a well-formed table never raises.
C1_DifferResult ==
    \A i \in DOMAIN calls :
        WellFormed(table) =>
            /\ calls[i].io = "ok" => ~calls[i].raised
            /\ ~calls[i].raised =>
                 /\ Range(calls[i].added) = Scraped(table) \ calls[i].memo0
                 /\ calls[i].memo1 = Scraped(table)

\* a first call returned new codes for a table holding a code the memo had,
\* with a code in the memo the table no longer has
C1_Witness ==
    /\ calls # << >>
    /\ ~calls[1].raised
    /\ calls[1].added # << >>
    /\ calls[1].memo0 \cap Scraped(table) # {}
    /\ calls[1].memo0 \ Scraped(table) # {}

\* C3: a call on a table that is not well-formed (row count minus one not
\* divisible by 3, zero rows included, or a group with no "Code" row) raises
\* and leaves the memo and the memo file as they were before the call.
C3_StructuralErrorKeepsMemo ==
    \A i \in DOMAIN calls :
        ~WellFormed(table) =>
            /\ calls[i].raised
            /\ calls[i].memo1 = calls[i].memo0
            /\ calls[i].file1 = calls[i].file0

\* the call raised on a second group with no "Code" row, after a first group
\* with a code the memo did not hold
C3_Witness ==
    /\ Len(table) = 7
    /\ calls # << >>
    /\ calls[1].raised
    /\ \E row \in GroupRows(table, 1) :
           IsCodeRow(row) /\ Strip(row.td[1]) \notin calls[1].memo0
    /\ \A row \in GroupRows(table, 2) : ~IsCodeRow(row)

\* C4: a second call with the same table and memo, after a first that
\* returned, returns an empty list and leaves the memo and the memo file as the
\* first call left them.
C4_SecondCallAddsNothing ==
    (Len(calls) = 2 /\ ~calls[2].raised) =>
        /\ calls[2].added = << >>
        /\ calls[2].memo1 = calls[1].memo1
        /\ calls[2].file1 = calls[1].file1

\* two calls returned, the first with new codes
C4_Witness ==
    /\ Len(calls) = 2
    /\ ~calls[1].raised
    /\ ~calls[2].raised
    /\ calls[1].added # << >>
    /\ calls[1].memo0 # calls[1].memo1

\* C9: the message is the header followed by one bullet line per code of
\* (scraped codes) minus (memo before the call), each once, in the order of
\* first appearance in the table.
C9_OneBulletPerAddedCode ==
    message # None =>
        /\ Head(CutLines(message[1], << >>)) = Header
        /\ \A line \in Range(Tail(CutLines(message[1], << >>))) : IsBulletLine(line)
        /\ BulletCodes(message[1]) = FirstSeen(ScrapedSeq(table), LastCall.memo0)

-----------------------------------------------------------------------------
(* The bot: main, on_ready and the loop fetch_and_send_codes               *)
(* (bot.py:264-314).  The coroutine runs without interruption between two  *)
(* awaits, so a cycle is two steps: from `await CLIENT.fetch_channel` to   *)
(* `await channel.send`, and from there to its end.                        *)

\* the tasks one process may start
MaxTasks == 2

Dates == << "D" >>

TitleRow == [ th |-> Some(Title), td |-> None ]

\* the table with one 3-row group (Code, Rewards, Dates) per data cell
RECURSIVE TableOf(_)
TableOf(cells) ==
    IF cells = << >> THEN << TitleRow >>
    ELSE TableOf(SubSeq(cells, 1, Len(cells) - 1))
         \o << [ th |-> Some(Code), td |-> Some(cells[Len(cells)]) ],
               [ th |-> Some(Rewards), td |-> Some(<< "a" >>) ],
               [ th |-> Some(Dates), td |-> Some(<< "b" >>) ] >>

\* the tables the wiki page may hold: none, one or two codes, a code cell
\* that is blank, a table one row short, a group with no "Code" row
BotTables ==
    { TableOf(<< >>),
      TableOf(<< << "a" >> >>),
      TableOf(<< << "b" >> >>),
      TableOf(<< << "a" >>, << "b" >> >>),
      TableOf(<< << " " >> >>),
      SubSeq(TableOf(<< << "a" >> >>), 1, 3),
      << TitleRow, TitleRow, TitleRow, TitleRow >> }

\* what session.get returns (bot.py:167-171): a failed request, or the
\* elements soup.select('table.redeemcode') finds in the page
Responses ==
    { [ ok |-> FALSE, elements |-> << >> ], [ ok |-> TRUE, elements |-> << >> ] }
    \cup { [ ok |-> TRUE, elements |-> << t >> ] : t \in BotTables }
    \cup { [ ok |-> TRUE, elements |-> << TableOf(<< >>), TableOf(<< >>) >> ] }

\* get_redeem_code_table(url): raises on a failed request and unless exactly
\* one table matches
get_redeem_code_table(response) ==
    IF ~response.ok THEN [ raised |-> TRUE, table |-> << >> ]
    ELSE IF Len(response.elements) # 1 THEN [ raised |-> TRUE, table |-> << >> ]
    ELSE [ raised |-> FALSE, table |-> response.elements[1] ]

\* the codes main adds to the memo from the memo file (bot.py:307-311)
LoadMemo(memo, file) ==
    IF file.exists
    THEN memo \cup { line \in Range(SplitLines(file.content)) : line # << >> }
    ELSE memo

\* fetch_and_send_codes.is_running(): a task was started and is not done
is_running == loopTask # 0 /\ tasks[loopTask].pc # "done"

\* on_ready with the test left out
ShouldStart_Always == TRUE

\* the test of on_ready before fetch_and_send_codes.start() (bot.py:268)
ShouldStart == ~is_running

InCycle(t) == tasks[t].pc \in { "fetch_channel", "send" }

\* the memo file the process may find when it first starts
InitialFiles == { NoFile, [ exists |-> TRUE, content |-> << "\n", "a", "\n", "\n" >> ] }

Init ==
    /\ CODE_MEMO = {}
    /\ memoFile \in InitialFiles
    /\ table = << >>
    /\ added = << >>
    /\ message = None
    /\ calls = << >>
    /\ proc = "down"
    /\ tasks = << >>
    /\ loopTask = 0
    /\ cycle = NoCycle
    /\ lastGood = {}
    /\ announced = {}
    /\ resent = FALSE
    /\ readyInCycle = FALSE

\* main(): load the memo file into CODE_MEMO, then CLIENT.run
Main ==
    /\ proc = "down"
    /\ proc' = "running"
    /\ CODE_MEMO' = LoadMemo(CODE_MEMO, memoFile)
    /\ lastGood' = CODE_MEMO'
    /\ UNCHANGED << memoFile, table, added, message, calls, tasks, loopTask,
                    cycle, announced, resent, readyInCycle >>

\* the process ends (killed, or CLIENT.run returns): its memory is gone, and a
\* new process starts with CODE_MEMO = set() (bot.py:81)
Stop ==
    /\ proc = "running"
    /\ proc' = "down"
    /\ CODE_MEMO' = {}
    /\ tasks' = << >>
    /\ loopTask' = 0
    /\ cycle' = NoCycle
    /\ readyInCycle' = FALSE
    /\ UNCHANGED << memoFile, table, added, message, calls, lastGood,
                    announced, resent >>

\* on_ready(): start the loop unless it is running (bot.py:264-270)
on_ready ==
    /\ proc = "running"
    /\ ShouldStart => Len(tasks) < MaxTasks
    /\ IF ShouldStart
       THEN /\ tasks' = Append(tasks, [ pc |-> "sleep", added |-> << >> ])
            /\ loopTask' = Len(tasks) + 1
       ELSE UNCHANGED << tasks, loopTask >>
    /\ readyInCycle' = (readyInCycle \/ \E t \in DOMAIN tasks : InCycle(t))
    /\ UNCHANGED << CODE_MEMO, memoFile, table, added, message, calls, proc,
                    cycle, lastGood, announced, resent >>

\* the loop calls fetch_and_send_codes, which runs to its first await
\* (bot.py:274-277)
Tick(t) ==
    /\ proc = "running"
    /\ tasks[t].pc = "sleep"
    /\ tasks' = [ tasks EXCEPT ![t].pc = "fetch_channel" ]
    /\ cycle' = [ status |-> "running", memo0 |-> CODE_MEMO, file0 |-> memoFile ]
    /\ readyInCycle' = FALSE
    /\ UNCHANGED << CODE_MEMO, memoFile, table, added, message, calls, proc,
                    loopTask, lastGood, announced, resent >>

\* An exception leaves the coroutine: the cycle has failed.  The repository
\* neither catches it nor registers an error handler, and what the loop of
\* discord.ext.tasks then does is not in the repository: the task either goes
\* on to its next iteration or ends.
Fail(t) ==
    /\ cycle' = [ cycle EXCEPT !.status = "failed" ]
    /\ \E goesOn \in BOOLEAN :
         tasks' = [ tasks EXCEPT ![t] =
                      [ pc |-> IF goesOn THEN "sleep" ELSE "done", added |-> << >> ] ]

\* fetch_channel returns or raises; then, with no await in between, the table
\* is fetched and diffed and the message is built (bot.py:277-286)
AfterFetchChannel(t) ==
    /\ proc = "running"
    /\ tasks[t].pc = "fetch_channel"
    /\ \/ /\ Fail(t)
          /\ UNCHANGED << CODE_MEMO, memoFile, lastGood, announced >>
       \/ \E response \in Responses :
            LET got == get_redeem_code_table(response)
            IN  IF got.raised
                THEN /\ Fail(t)
                     /\ UNCHANGED << CODE_MEMO, memoFile, lastGood, announced >>
                ELSE \E io \in IOOutcomes :
                       LET r == get_redeem_codes(got.table, CODE_MEMO, memoFile, io)
                       IN  /\ CODE_MEMO' = r.memo
                           /\ memoFile' = r.file
                           /\ IF r.raised
                              THEN /\ Fail(t)
                                   /\ UNCHANGED << lastGood, announced >>
                              ELSE /\ lastGood' = Scraped(got.table)
                                   /\ announced' = announced \cap Scraped(got.table)
                                   /\ IF r.added # << >>
                                      THEN /\ tasks' = [ tasks EXCEPT ![t] =
                                                  [ pc |-> "send", added |-> r.added ] ]
                                           /\ UNCHANGED cycle
                                      ELSE /\ tasks' = [ tasks EXCEPT ![t].pc = "sleep" ]
                                           /\ cycle' = [ cycle EXCEPT !.status = "ok" ]
    /\ UNCHANGED << table, added, message, calls, proc, loopTask, resent,
                    readyInCycle >>

\* channel.send returns or raises (bot.py:287)
AfterSend(t) ==
    /\ proc = "running"
    /\ tasks[t].pc = "send"
    /\ \/ /\ message' = Some(FormatMessage(tasks[t].added))
          /\ resent' = (resent \/ Range(tasks[t].added) \cap announced # {})
          /\ announced' = announced \cup Range(tasks[t].added)
          /\ tasks' = [ tasks EXCEPT ![t] = [ pc |-> "sleep", added |-> << >> ] ]
          /\ cycle' = [ cycle EXCEPT !.status = "ok" ]
       \/ /\ Fail(t)
          /\ UNCHANGED << message, resent, announced >>
    /\ UNCHANGED << CODE_MEMO, memoFile, table, added, calls, proc, loopTask,
                    lastGood, readyInCycle >>

StartCycle == \E t \in DOMAIN tasks : Tick(t)

RunCycle == \E t \in DOMAIN tasks : AfterFetchChannel(t)

EndCycle == \E t \in DOMAIN tasks : AfterSend(t)

Next ==
    \/ Main
    \/ Stop
    \/ on_ready
    \/ StartCycle
    \/ RunCycle
    \/ EndCycle

Spec == Init /\ [][Next]_vars

-----------------------------------------------------------------------------
(* Claims about the bot (Spec).                                            *)

\* the codes main would load from the memo file
FileCodes(file) == LoadMemo({}, file)

\* no cycle is between its two steps
BetweenCycles == proc = "running" /\ \A t \in DOMAIN tasks : ~InCycle(t)

\* C2: a cycle that fails has changed neither the in-memory memo nor the memo
\* file; there is no state in which the cycle has failed and the memo holds
\* codes it did not hold when the cycle began.
C2_FailedCycleChangesNothing ==
    cycle.status = "failed" =>
        /\ CODE_MEMO = cycle.memo0
        /\ memoFile = cycle.file0

\* C6: between cycles the in-memory memo equals the codes stored in the memo
\* file, and both equal the codes of the most recent scrape that succeeded
\* (the codes loaded at startup if none has).
C6_MemoIsFileIsLastScrape ==
    BetweenCycles =>
        /\ CODE_MEMO = FileCodes(memoFile)
        /\ CODE_MEMO = lastGood

\* C8: at most one execution of fetch_and_send_codes is in progress, and at
\* most one task of the loop is alive.
C8_CyclesNeverOverlap ==
    \A t, u \in DOMAIN tasks :
        (tasks[t].pc # "done" /\ tasks[u].pc # "done") => t = u

\* on_ready has run during the cycle now suspended at channel.send, in a
\* process whose first task had ended and whose loop on_ready started again
C8_Witness ==
    /\ readyInCycle
    /\ Len(tasks) = 2
    /\ tasks[1].pc = "done"
    /\ tasks[2].pc = "send"

\* C10: a code that was sent, and that every scrape since has held, is not
\* sent again, whatever cycles failed and however often the process restarted.
C10_NoCodeSentTwice == ~resent

-----------------------------------------------------------------------------
(* The memo round trip (SpecMemo): a table whose code cells are drawn from *)
(* every text up to a length is diffed, the process ends, and main loads   *)
(* the memo file the differ wrote.                                         *)

\* the longest code cell, in characters
MaxTextLen == 3

\* the most code entries of a table of the round trip
MaxCodes == 2

RawTexts == UNION { [ 1..n -> { "a", "\n" } ] : n \in 0..MaxTextLen }

MemoTables == { TableOf(cells) : cells \in UNION { [ 1..n -> RawTexts ] : n \in 0..MaxCodes } }

InitMemo ==
    /\ table \in MemoTables
    /\ CODE_MEMO = {}
    /\ memoFile = NoFile
    /\ added = << >>
    /\ message = None
    /\ calls = << >>
    /\ InitBotIdle

NextMemo == CallDiffer \/ Stop \/ Main

SpecMemo == InitMemo /\ [][NextMemo]_vars

\* C5: once the differ has written the memo file, the memo a process holds,
\* also one that loaded it from that file in main, is the set of codes
\* scraped, whatever texts the code cells held.
C5_MemoRoundTrip ==
    (/\ proc = "running"
     /\ calls # << >>
     /\ LastCall.io = "ok"
     /\ ~LastCall.raised
     /\ memoFile = LastCall.file1) => CODE_MEMO = LastCall.memo1

====
